---- MODULE Spec2Model ----
(***************************************************************************)
(* Script descriptors (src/src/descriptor.rs): the descriptor tree, its    *)
(* text parser (FromStr, FunctionTree::from_slice, Descriptor::from_tree), *)
(* its serializer (Display), instantiate, and the compile/satisfy          *)
(* scenarios of the module's tests.                                        *)
(*                                                                         *)
(* Text is a sequence of characters; a character is a one-character string *)
(* ("p", "(", "7"), and a byte that has no printable glyph is written as   *)
(* "\\" followed by its decimal value.  Byte(c) is the byte value.         *)
(***************************************************************************)
EXTENDS Integers, Sequences, FiniteSets, TLC

VARIABLES
    P,        \* the key type parameter of Descriptor<P>: "String" or "PublicKey"
    pc,       \* position of the scenario
    form,     \* how the input text was built (the caller's knowledge of it)
    desc,     \* a Descriptor<P> value held by the caller
    s,        \* the text handed to from_str / produced by to_string
    result,   \* what from_str returned (or that it panicked)
    inst_fn,  \* the caller's instantiate_fn, as a table key -> Result
    inst,     \* what instantiate returned, with the calls it made
    map,      \* the satisfier's signature map: key -> (signature, sighash type)
    age,      \* the satisfier's time/height argument
    script,   \* the compiled program
    wit       \* what satisfy returned

vars == <<P, pc, form, desc, s, result, inst_fn, inst, map, age, script, wit>>

None == [kind |-> "None"]

----------------------------------------------------------------------------
(* Bounds of the model *)

\* number of distinct keys a scenario draws from
NKeys == 3
\* largest number of keys / sub-policies listed in a multi / thres
MaxN == 2
\* largest threshold written in a generated input
MaxK == 3

----------------------------------------------------------------------------
(* Characters and bytes *)

RawByte ==
    ("\\0" :> 0) @@ ("\\19" :> 19) @@ ("\\20" :> 20) @@ ("\\127" :> 127)
    @@ ("\\195" :> 195) @@ ("\\169" :> 169)

Glyphs ==
    (" " :> 32) @@ ("(" :> 40) @@ (")" :> 41) @@ ("+" :> 43) @@ ("," :> 44)
    @@ ("-" :> 45)
    @@ ("0" :> 48) @@ ("1" :> 49) @@ ("2" :> 50) @@ ("3" :> 51) @@ ("4" :> 52)
    @@ ("5" :> 53) @@ ("6" :> 54) @@ ("7" :> 55) @@ ("8" :> 56) @@ ("9" :> 57)
    @@ ("A" :> 65) @@ ("B" :> 66) @@ ("C" :> 67) @@ ("D" :> 68)
    @@ ("a" :> 97) @@ ("b" :> 98) @@ ("c" :> 99) @@ ("d" :> 100)
    @@ ("e" :> 101) @@ ("f" :> 102) @@ ("h" :> 104) @@ ("i" :> 105)
    @@ ("k" :> 107) @@ ("l" :> 108) @@ ("m" :> 109) @@ ("n" :> 110)
    @@ ("o" :> 111) @@ ("p" :> 112) @@ ("r" :> 114) @@ ("s" :> 115)
    @@ ("t" :> 116) @@ ("u" :> 117) @@ ("w" :> 119) @@ ("x" :> 120)
    @@ ("y" :> 121)

\* s.as_bytes()[i] for the character c
Byte(c) == IF c \in DOMAIN RawByte THEN RawByte[c] ELSE Glyphs[c]

Digits == <<"0", "1", "2", "3", "4", "5", "6", "7", "8", "9">>
HexDigits ==
    <<"0", "1", "2", "3", "4", "5", "6", "7", "8", "9", "a", "b", "c", "d", "e", "f">>

IsDigit(c) == \E i \in 1..10 : Digits[i] = c
DigitVal(c) == (CHOOSE i \in 1..10 : Digits[i] = c) - 1
IsHex(c) == \E i \in 1..16 : HexDigits[i] = c
HexVal(c) == (CHOOSE i \in 1..16 : HexDigits[i] = c) - 1

RECURSIVE Concat(_)
\* the texts of a sequence of texts, joined
Concat(ts) == IF ts = <<>> THEN <<>> ELSE Head(ts) \o Concat(Tail(ts))

RECURSIVE Dec(_)
\* {} of an unsigned integer: its decimal digits, no sign, no leading zero
Dec(n) == IF n < 10 THEN <<Digits[n + 1]>> ELSE Dec(n \div 10) \o <<Digits[(n % 10) + 1]>>

RECURSIVE DigitsValue(_, _)
\* the value of a run of decimal digits, most significant first
DigitsValue(ds, acc) ==
    IF ds = <<>> THEN acc ELSE DigitsValue(Tail(ds), acc * 10 + DigitVal(Head(ds)))

RECURSIVE StripZeros(_)
StripZeros(ds) == IF ds # <<>> /\ Head(ds) = "0" THEN StripZeros(Tail(ds)) ELSE ds

RECURSIVE DigitsLess(_, _)
\* for two digit runs of the same length: a < b as numbers
DigitsLess(a, b) ==
    IF a = <<>> THEN FALSE
    ELSE IF Head(a) # Head(b) THEN DigitVal(Head(a)) < DigitVal(Head(b))
         ELSE DigitsLess(Tail(a), Tail(b))

\* u32::MAX, 4294967295, as its digits
U32MaxDigits == <<"4", "2", "9", "4", "9", "6", "7", "2", "9", "5">>

\* whether a digit run exceeds u32::MAX
Overflows(ds) ==
    LET sig == StripZeros(ds)
    IN  Len(sig) > 10 \/ (Len(sig) = 10 /\ DigitsLess(U32MaxDigits, sig))

\* u32::from_str: an optional "+", then at least one digit, no overflow
u32_from_str(t) ==
    LET ds == IF t # <<>> /\ Head(t) = "+" THEN Tail(t) ELSE t
    IN  IF ds = <<>> \/ \E i \in 1..Len(ds) : ~IsDigit(ds[i])
        THEN [ok |-> FALSE]
        ELSE IF Overflows(ds)
             THEN [ok |-> FALSE]
             ELSE [ok |-> TRUE, val |-> DigitsValue(ds, 0)]

----------------------------------------------------------------------------
(* Results and errors *)

Ok(v) == [kind |-> "Ok", val |-> v]
Err(e) == [kind |-> "Err", err |-> e]
\* the call did not return: it panicked (unwrap of an Err, index out of bounds)
Panic == [kind |-> "Panic"]

Unexpected(t) == [e |-> "Unexpected", text |-> t]
Unprintable(b) == [e |-> "Unprintable", byte |-> b]
ExpectedChar(c) == [e |-> "ExpectedChar", ch |-> c]

errorize(t) == Unexpected(t)

parse_num(t) ==
    LET r == u32_from_str(t)
    IN  IF r.ok THEN Ok(r.val) ELSE Err(errorize(t))

----------------------------------------------------------------------------
(* The key type P and the hash type *)

\* the key types the scenarios instantiate Descriptor<P> with: String, whose
\* from_str never fails, and a public key, written in hex, whose from_str
\* rejects what is no key (the model's key is one byte wide, and 00 is no key)
KeyTypes == {"String", "PublicKey"}

Letters == <<"A", "B", "C", "D">>

\* the two hex digits of a byte
HexByte(b) == <<HexDigits[(b \div 16) + 1], HexDigits[(b % 16) + 1]>>

RECURSIVE Hex(_)
Hex(bytes) == IF bytes = <<>> THEN <<>> ELSE HexByte(Head(bytes)) \o Hex(Tail(bytes))

\* the message of P::Err, as e.to_string() gives it
KeyErrText == <<"b", "a", "d", " ", "k", "e", "y">>

\* P::from_str
P_from_str(Pt, t) ==
    IF Pt = "String" THEN Ok(t)
    ELSE IF Len(t) = 2 /\ IsHex(t[1]) /\ IsHex(t[2]) /\ HexVal(t[1]) * 16 + HexVal(t[2]) # 0
         THEN Ok(<<HexVal(t[1]) * 16 + HexVal(t[2])>>)
         ELSE Err(KeyErrText)

\* P's Display
P_fmt(Pt, k) == IF Pt = "String" THEN k ELSE Hex(k)

\* the keys a scenario builds trees from
Keys(Pt) ==
    IF Pt = "String" THEN {<<Letters[i]>> : i \in 1..NKeys}
    ELSE {<<i>> : i \in 1..NKeys}

\* Sha256dHash::from_data(&[0; 32]): one fixed digest (the model's digest is
\* one byte wide)
ZeroDataHash == <<190>>

\* Sha256dHash's Display: hex
Hash_fmt(h) == Hex(h)

----------------------------------------------------------------------------
(* Descriptor<P> *)

Key(pk) == [tag |-> "Key", pk |-> pk]
KeyHash(pk) == [tag |-> "KeyHash", pk |-> pk]
Multi(k, keys) == [tag |-> "Multi", k |-> k, keys |-> keys]
Hash(h) == [tag |-> "Hash", hash |-> h]
Time(n) == [tag |-> "Time", n |-> n]
Threshold(k, subs) == [tag |-> "Threshold", k |-> k, subs |-> subs]
And(l, r) == [tag |-> "And", left |-> l, right |-> r]
Or(l, r) == [tag |-> "Or", left |-> l, right |-> r]
AsymmetricOr(l, r) == [tag |-> "AsymmetricOr", left |-> l, right |-> r]
Wpkh(pk) == [tag |-> "Wpkh", pk |-> pk]
Sh(d) == [tag |-> "Sh", sub |-> d]
Wsh(d) == [tag |-> "Wsh", sub |-> d]

RECURSIVE fmt(_, _), fmt_each(_, _)
\* impl Display for Descriptor<P>
fmt(Pt, d) ==
    (CASE d.tag = "Key" -> <<"p", "k", "(">> \o P_fmt(Pt, d.pk)
       [] d.tag = "KeyHash" -> <<"p", "k", "h", "(">> \o P_fmt(Pt, d.pk)
       [] d.tag = "Multi" ->
            <<"m", "u", "l", "t", "i", "(">> \o Dec(d.k)
            \o Concat([i \in 1..Len(d.keys) |-> P_fmt(Pt, d.keys[i]) \o <<",">>])
       [] d.tag = "Hash" -> <<"h", "a", "s", "h", "(">> \o Hash_fmt(d.hash)
       [] d.tag = "Time" -> <<"t", "i", "m", "e", "(">> \o Dec(d.n)
       [] d.tag = "Threshold" ->
            <<"m", "u", "l", "t", "i", "(">> \o Dec(d.k) \o fmt_each(Pt, d.subs)
       [] d.tag = "And" ->
            <<"a", "n", "d", "(">> \o fmt(Pt, d.left) \o <<",", " ">> \o fmt(Pt, d.right)
       [] d.tag = "Or" ->
            <<"o", "r", "(">> \o fmt(Pt, d.left) \o <<",", " ">> \o fmt(Pt, d.right)
       [] d.tag = "AsymmetricOr" ->
            <<"a", "o", "r", "(">> \o fmt(Pt, d.left) \o <<",", " ">> \o fmt(Pt, d.right)
       [] d.tag = "Wpkh" -> <<"w", "p", "k", "h", "(">> \o P_fmt(Pt, d.pk)
       [] d.tag = "Sh" -> <<"s", "h", "(">> \o fmt(Pt, d.sub)
       [] d.tag = "Wsh" -> <<"w", "s", "h", "(">> \o fmt(Pt, d.sub))
    \o <<")">>

\* for desc in descs { write!(f, "{},", desc) }
fmt_each(Pt, ds) ==
    IF ds = <<>> THEN <<>> ELSE fmt(Pt, Head(ds)) \o <<",">> \o fmt_each(Pt, Tail(ds))

\* ToString, through Display
to_string(Pt, d) == fmt(Pt, d)

----------------------------------------------------------------------------
(* FunctionTree::from_slice *)

FunctionTree(name, args) == [name |-> name, args |-> args]

\* the scan for the first '(' ',' or ')': Found and its 0-based position
Find(sl) ==
    LET hits == {i \in 1..Len(sl) : sl[i] \in {"(", ",", ")"}}
    IN  IF hits = {} THEN [found |-> "Nothing"]
        ELSE LET i == CHOOSE i \in hits : \A j \in hits : i <= j
             IN  [found |-> (CASE sl[i] = "(" -> "Lparen"
                               [] sl[i] = "," -> "Comma"
                               [] sl[i] = ")" -> "Rparen"),
                  n |-> i - 1]

\* &sl[from..], from 0-based
SliceFrom(sl, from) == SubSeq(sl, from + 1, Len(sl))
\* &sl[..to], to 0-based and excluded
SliceTo(sl, to) == SubSeq(sl, 1, to)

OkSlice(tree, rem) == [kind |-> "Ok", tree |-> tree, rem |-> rem]

RECURSIVE from_slice(_), from_slice_loop(_, _)
from_slice(sl) ==
    LET found == Find(sl)
    IN  CASE found.found = "Nothing" -> Err(ExpectedChar(")"))
          [] found.found \in {"Comma", "Rparen"} ->
                OkSlice(FunctionTree(SliceTo(sl, found.n), <<>>), SliceFrom(sl, found.n))
          [] found.found = "Lparen" ->
                from_slice_loop(SliceFrom(sl, found.n + 1),
                                FunctionTree(SliceTo(sl, found.n), <<>>))

\* the loop of the function-call case: one argument, then ',' or ')'
from_slice_loop(sl, ret) ==
    LET r == from_slice(sl)
    IN  IF r.kind # "Ok" THEN r
        ELSE LET ret2 == [ret EXCEPT !.args = Append(@, r.tree)]
                 new_sl == r.rem
             IN  IF new_sl = <<>> THEN Err(ExpectedChar(")"))
                 ELSE CASE new_sl[1] = "," -> from_slice_loop(SliceFrom(new_sl, 1), ret2)
                        [] new_sl[1] = ")" -> OkSlice(ret2, SliceFrom(new_sl, 1))
                        [] OTHER -> Err(ExpectedChar(","))

----------------------------------------------------------------------------
(* Descriptor::from_tree *)

\* the threshold test of the "multi" and "thres" arms: thresh >= nkeys, where
\* nkeys is top.args.len(), the threshold argument counted
thresh_too_high_gt(thresh, nargs) == thresh > nargs
thresh_too_high(thresh, nargs) == thresh >= nargs

\* "higher threshold than there were keys in multi"
HigherThreshold ==
    <<"h", "i", "g", "h", "e", "r", " ", "t", "h", "r", "e", "s", "h",
        "o", "l", "d", " ", "t", "h", "a", "n", " ", "t", "h", "e", "r", "e",
        " ", "w", "e", "r", "e", " ", "k", "e", "y", "s", " ", "i", "n", " ",
        "m", "u", "l", "t", "i">>

\* the "pk", "pkh" and "wpkh" arms, which differ in the variant they build
key_arm(Pt, top, tag) ==
    LET pk == top.args[1]
    IN  IF pk.args = <<>>
        THEN LET r == P_from_str(Pt, pk.name)
             IN  IF r.kind = "Ok" THEN Ok([tag |-> tag, pk |-> r.val])
                 ELSE Err(Unexpected(r.err))
        ELSE Err(errorize(pk.args[1].name))

RECURSIVE multi_keys(_, _, _)
\* for arg in &top.args[1..]: the first key that fails ends the loop
multi_keys(Pt, args, keys) ==
    IF args = <<>> THEN Ok(keys)
    ELSE LET r == P_from_str(Pt, Head(args).name)
         IN  IF r.kind = "Ok" THEN multi_keys(Pt, Tail(args), Append(keys, r.val))
             ELSE Err(Unexpected(r.err))

\* the "multi" arm
multi_arm(Pt, top) ==
    LET nkeys == Len(top.args)
        nested == {i \in 1..nkeys : top.args[i].args # <<>>}
    IN  IF nested # {}
        THEN LET i == CHOOSE i \in nested : \A j \in nested : i <= j
             IN  Err(errorize(top.args[i].args[1].name))
        ELSE IF nkeys = 0 THEN Panic   \* top.args[0]: index out of bounds
        ELSE LET t == parse_num(top.args[1].name)
             IN  IF t.kind # "Ok"
                 THEN LET e == P_from_str(Pt, <<>>)
                      IN  IF e.kind = "Ok" THEN Ok(Multi(2, <<e.val, e.val, e.val>>))
                          ELSE Panic   \* unwrap() of an Err
                 ELSE IF thresh_too_high(t.val, nkeys)
                      THEN Err(errorize(HigherThreshold))
                      ELSE LET ks == multi_keys(Pt, Tail(top.args), <<>>)
                           IN  IF ks.kind = "Ok" THEN Ok(Multi(t.val, ks.val)) ELSE ks

\* the "hash" arm
hash_arm(top) ==
    LET hash_t == top.args[1]
    IN  IF hash_t.args = <<>> /\ hash_t.name = <<>> THEN Ok(Hash(ZeroDataHash))
        ELSE IF hash_t.args = <<>>
             THEN Panic   \* hash_t.args[0] of an empty vector
             ELSE Err(errorize(hash_t.args[1].name))

\* the "time" arm
time_arm(top) ==
    LET time_t == top.args[1]
    IN  IF time_t.args = <<>> /\ time_t.name = <<>> THEN Ok(Time(268435456))
        ELSE IF time_t.args = <<>>
             THEN Panic   \* time_t.args[0] of an empty vector
             ELSE Err(errorize(time_t.args[1].name))

RECURSIVE from_tree(_, _), thres_subs(_, _, _)
\* for arg in &top.args[1..] { subs.push(Descriptor::from_tree(arg)?) }
thres_subs(Pt, args, subs) ==
    IF args = <<>> THEN Ok(subs)
    ELSE LET r == from_tree(Pt, Head(args))
         IN  IF r.kind = "Ok" THEN thres_subs(Pt, Tail(args), Append(subs, r.val))
             ELSE r

from_tree(Pt, top) ==
    LET n == Len(top.args)
        name == top.name
        \* the two operands of "and", "or", "aor", the left one first
        pair(tag) ==
            LET l == from_tree(Pt, top.args[1])
            IN  IF l.kind # "Ok" THEN l
                ELSE LET r == from_tree(Pt, top.args[2])
                     IN  IF r.kind # "Ok" THEN r
                         ELSE Ok([tag |-> tag, left |-> l.val, right |-> r.val])
        \* the operand of "sh", "wsh"
        wrap(tag) ==
            LET d == from_tree(Pt, top.args[1])
            IN  IF d.kind # "Ok" THEN d ELSE Ok([tag |-> tag, sub |-> d.val])
    IN  CASE name = <<"p", "k">> /\ n = 1 -> key_arm(Pt, top, "Key")
          [] name = <<"p", "k", "h">> /\ n = 1 -> key_arm(Pt, top, "KeyHash")
          [] name = <<"m", "u", "l", "t", "i">> -> multi_arm(Pt, top)
          [] name = <<"h", "a", "s", "h">> /\ n = 1 -> hash_arm(top)
          [] name = <<"t", "i", "m", "e">> /\ n = 1 -> time_arm(top)
          [] name = <<"t", "h", "r", "e", "s">> ->
                IF n = 0 THEN Panic   \* top.args[0]: index out of bounds
                ELSE IF top.args[1].args # <<>>
                THEN Err(errorize(top.args[1].args[1].name))
                ELSE LET t == parse_num(top.args[1].name)
                     IN  IF t.kind # "Ok" THEN t
                         ELSE IF thresh_too_high(t.val, n)
                              THEN Err(errorize(top.args[1].name))
                              ELSE LET ss == thres_subs(Pt, Tail(top.args), <<>>)
                                   IN  IF ss.kind = "Ok"
                                       THEN Ok(Threshold(t.val, ss.val)) ELSE ss
          [] name = <<"a", "n", "d">> /\ n = 2 -> pair("And")
          [] name = <<"o", "r">> /\ n = 2 -> pair("Or")
          [] name = <<"a", "o", "r">> /\ n = 2 -> pair("AsymmetricOr")
          [] name = <<"w", "p", "k", "h">> /\ n = 1 -> key_arm(Pt, top, "Wpkh")
          [] name = <<"s", "h">> /\ n = 1 -> wrap("Sh")
          [] name = <<"w", "s", "h">> /\ n = 1 -> wrap("Wsh")
          [] OTHER -> Err(errorize(name))

----------------------------------------------------------------------------
(* impl FromStr for Descriptor<P> *)

\* the bytes the loop of from_str refuses
unprintable_strict(b) == b <= 20 \/ b >= 127
unprintable(b) == b < 20 \/ b > 127

\* from_str without the test of rem
from_str_rem_ignored(Pt, t) ==
    LET bad == {i \in 1..Len(t) : unprintable(Byte(t[i]))}
    IN  IF bad # {}
        THEN Err(Unprintable(Byte(t[CHOOSE i \in bad : \A j \in bad : i <= j])))
        ELSE LET r == from_slice(t)
             IN  IF r.kind # "Ok" THEN r ELSE from_tree(Pt, r.tree)

from_str(Pt, t) ==
    LET bad == {i \in 1..Len(t) : unprintable(Byte(t[i]))}
    IN  IF bad # {}
        THEN Err(Unprintable(Byte(t[CHOOSE i \in bad : \A j \in bad : i <= j])))
        ELSE LET r == from_slice(t)
             IN  IF r.kind # "Ok" THEN r
                 ELSE IF r.rem # <<>> THEN Err(errorize(r.rem))
                      ELSE from_tree(Pt, r.tree)

----------------------------------------------------------------------------
(* The inputs of the scenarios *)

\* the sequences over S of length lo..hi
SeqsOf(S, lo, hi) == UNION {[1..n -> S] : n \in lo..hi}

\* name(arg, arg, ...) as text
Call(name, args) ==
    name \o <<"(">>
    \o Concat([i \in 1..Len(args) |-> IF i = 1 THEN args[i] ELSE <<",">> \o args[i]])
    \o <<")">>

\* threshold tokens: the decimal integers 0..MaxK, and tokens that are none,
\* or none that fits a u32
KTokens ==
    {[tok |-> Dec(k), is |-> "decimal", val |-> k] : k \in 0..MaxK}
    \cup {[tok |-> <<"0", "1">>, is |-> "decimal", val |-> 1],
          [tok |-> <<"4", "2", "9", "4", "9", "6", "7", "2", "9", "6">>,
           is |-> "too big", val |-> -1],
          [tok |-> <<>>, is |-> "empty", val |-> -1],
          [tok |-> <<"x">>, is |-> "other", val |-> -1]}

\* key texts: "01" is a key of both key types, "A" of String alone
KeyTexts == {<<"0", "1">>, <<"A">>}

\* sub-policy texts
SubTexts == {<<"p", "k", "(", "0", "1", ")">>, <<"p", "k", "(", "A", ")">>,
             <<"t", "i", "m", "e", "(", ")">>}

\* multi(k, key_1, ..., key_n) and thres(k, sub_1, ..., sub_n)
ThresholdForms ==
    {[kind |-> "threshold", name |-> <<"m", "u", "l", "t", "i">>, k |-> k, args |-> a] :
        k \in KTokens, a \in SeqsOf(KeyTexts, 1, MaxN)}
    \cup
    {[kind |-> "threshold", name |-> <<"t", "h", "r", "e", "s">>, k |-> k, args |-> a] :
        k \in KTokens, a \in SeqsOf(SubTexts, 1, MaxN)}

\* leaf texts: an empty one, keys, numbers, hex, none of these
LeafTexts == {<<>>, <<"0", "1">>, <<"A">>, <<"5">>, <<"b", "e">>, <<"0", "0">>, <<"x", "y">>}

\* pk(x), pkh(x), wpkh(x), hash(x), time(x)
LeafNames == {<<"p", "k">>, <<"p", "k", "h">>, <<"w", "p", "k", "h">>,
              <<"h", "a", "s", "h">>, <<"t", "i", "m", "e">>}
LeafForms == {[kind |-> "leaf", name |-> n, x |-> x] : n \in LeafNames, x \in LeafTexts}

\* other texts: those of tests::parse_descriptor, and malformed or nested ones
OtherTexts ==
    {<<"(">>, <<"(", "x", "(", ")">>, <<"(", "\\127", "(", ")", "3">>,
     <<"p", "k", "(", ")">>, <<"p", "k", "(", "0", "2", ")">>,
     <<>>, <<"p", "k">>, <<"p", "k", ",">>, <<"p", "k", ")">>,
     <<"p", "k", "(", "A">>, <<"p", "k", "(", "A", ")", "x">>,
     <<"p", "k", "(", "A", ",", "B", ")">>, <<"p", "k", "(", "A", "(", "B", ")", ")">>,
     <<"a", "(", "b", ")", "c">>, <<"a", "(", "b", "(", "c", ")", "d", ")">>,
     <<"a", "(", "b", "(", "c", ")">>,
     <<"m", "u", "l", "t", "i", "(", "1", ")">>, <<"t", "h", "r", "e", "s", "(", "1", ")">>,
     <<"s", "h", "(", "p", "k", "(", "A", ")", ")">>,
     <<"a", "n", "d", "(", "p", "k", "(", "A", ")", ",", "p", "k", "(", "B", ")", ")">>,
     <<"a", "n", "d", "(", "p", "k", "(", "A", ")", ",", " ", "p", "k", "(", "B", ")", ")">>,
     <<"o", "r", "(", "t", "i", "m", "e", "(", ")", ",", "h", "a", "s", "h", "(", ")", ")">>,
     <<"a", "o", "r", "(", "x", ",", "t", "i", "m", "e", "(", "5", ")", ")">>,
     <<"a", "n", "d", "(", "t", "i", "m", "e", "(", "5", ")", ",", "x", ")">>,
     <<"m", "u", "l", "t", "i", "(", "1", ",", "A", "(", "B", ")", ")">>,
     <<"t", "h", "r", "e", "s", "(", "1", "(", "x", ")", ",", "p", "k", "(", "A", ")", ")">>,
     <<"h", "a", "s", "h", "(", "b", "e", "(", "x", ")", ")">>,
     <<"t", "i", "m", "e", "(", "5", "(", "x", ")", ")">>,
     <<"a", "n", "d", "(", "p", "k", "(", "A", ")", ")">>,
     <<"f", "o", "o", "(", "A", ")">>}
OtherForms == {[kind |-> "text", text |-> x] : x \in OtherTexts}

\* texts a byte sequence is put into: a character below 20, one above 127 (the
\* two bytes of U+00E9), and the first and last bytes that are let through
Insertions == {<<"\\19">>, <<"\\0">>, <<"\\195", "\\169">>, <<"\\20">>, <<"\\127">>}
InsertBases == {<<>>, <<"p", "k", "(", "A", ")">>, <<"(", "x">>}
Inserted(base, at, ins) == SubSeq(base, 1, at) \o ins \o SubSeq(base, at + 1, Len(base))
ByteForms ==
    UNION {{[kind |-> "text", text |-> Inserted(b, i, x)] :
                i \in 0..Len(b), x \in Insertions} : b \in InsertBases}
    \cup
    UNION {{[kind |-> "text", text |-> Inserted(Inserted(b, Len(b), y), i, x)] :
                i \in 0..Len(b), x \in Insertions, y \in Insertions} : b \in InsertBases}

\* a text followed by more text
Expressions == {<<"p", "k", "(", "A", ")">>, <<"t", "i", "m", "e", "(", ")">>,
                <<"p", "k">>, <<"p", "k", "(", "\\127", ")">>}
Trailers == {<<")">>, <<",">>, <<"(">>, <<" ">>, <<"x">>, <<"\\127">>, <<"\\19">>,
             <<",", "p", "k", "(", "A", ")">>, <<"p", "k", "(", "A", ")">>, <<")", ")">>}
TrailingForms == {[kind |-> "text", text |-> e \o x] : e \in Expressions, x \in Trailers}

\* the text a form stands for
FormText(f) ==
    CASE f.kind = "threshold" -> Call(f.name, <<f.k.tok>> \o f.args)
      [] f.kind = "leaf" -> Call(f.name, <<f.x>>)
      [] f.kind = "text" -> f.text

\* the descriptor trees a caller builds: leaves, and one or two levels above
KeyLeaves(Pt) == UNION {{Key(k), KeyHash(k), Wpkh(k)} : k \in Keys(Pt)}
Multis(Pt) ==
    UNION {{Multi(k, ks) : k \in 1..Len(ks)} : ks \in SeqsOf(Keys(Pt), 1, MaxN)}
Hashes == {Hash(ZeroDataHash), Hash(<<1>>)}
Times == {Time(0), Time(5), Time(268435456)}
Leaves(Pt) == KeyLeaves(Pt) \cup Multis(Pt) \cup Hashes \cup Times

\* the operands of the composite trees
Operands(Pt) ==
    {Key(k) : k \in Keys(Pt)}
    \cup {Multi(1, <<CHOOSE k \in Keys(Pt) : TRUE>>), Time(5), Hash(<<1>>),
          Sh(Wpkh(CHOOSE k \in Keys(Pt) : TRUE))}
Pairs(Pt) ==
    UNION {{And(l, r), Or(l, r), AsymmetricOr(l, r)} : l \in Operands(Pt), r \in Operands(Pt)}
Thresholds(Pt) ==
    UNION {{Threshold(k, ds) : k \in 1..Len(ds)} : ds \in SeqsOf(Operands(Pt), 1, MaxN)}
Wrapped(Pt) ==
    UNION {{Sh(d), Wsh(d)} : d \in Leaves(Pt) \cup Pairs(Pt)}
Nested(Pt) ==
    UNION {{And(l, r), Or(r, l)} :
            l \in {And(Key(a), KeyHash(b)) : a, b \in Keys(Pt)} \cup {Wsh(Sh(Time(5)))},
            r \in Operands(Pt)}
Trees(Pt) ==
    Leaves(Pt) \cup Pairs(Pt) \cup Thresholds(Pt) \cup Wrapped(Pt) \cup Nested(Pt)

----------------------------------------------------------------------------
(* The parser and serializer scenarios *)

Idle ==
    /\ inst_fn = None /\ inst = None
    /\ map = <<>> /\ age = 0 /\ script = None /\ wit = None

\* a caller holds a tree, or a text
Init ==
    /\ P \in KeyTypes
    /\ result = None
    /\ \/ /\ pc = "tree"
          /\ form = [kind |-> "tree"]
          /\ desc \in Trees(P)
          /\ s = <<>>
       \/ /\ pc = "text"
          /\ form \in ThresholdForms \cup LeafForms \cup OtherForms \cup ByteForms
                        \cup TrailingForms
          /\ desc = None
          /\ s = FormText(form)
    /\ Idle

\* desc.to_string()
Display ==
    /\ pc = "tree"
    /\ s' = to_string(P, desc)
    /\ pc' = "text"
    /\ UNCHANGED <<P, form, desc, result, inst_fn, inst, map, age, script, wit>>

\* Descriptor::<P>::from_str(s)
FromStr ==
    /\ pc = "text"
    /\ result' = from_str(P, s)
    /\ pc' = "parsed"
    /\ UNCHANGED <<P, form, desc, s, inst_fn, inst, map, age, script, wit>>

Next == Display \/ FromStr

Spec == Init /\ [][Next]_vars

----------------------------------------------------------------------------
(* Claims about the parser and the serializer *)

Parsed == pc = "parsed"

\* C1: parsing the text the serializer produced for a tree returns Ok of
\* that same tree.
C1_RoundTrip == (Parsed /\ form.kind = "tree") => result = Ok(desc)

\* whether a threshold form's k is a decimal integer that fits a u32
DecimalK(f) == f.kind = "threshold" /\ f.k.is = "decimal"

\* C2, as claimed: multi(k, key_1..key_n) and thres(k, sub_1..sub_n) with a
\* decimal k are refused whenever k >= n.
C2_RejectsKAtLeastN ==
    (Parsed /\ DecimalK(form) /\ form.k.val >= Len(form.args)) => result.kind = "Err"

\* C2, amended: multi(k, key_1..key_n) and thres(k, sub_1..sub_n) with a
\* decimal k that fits a u32 are refused whenever k > n.
C2_RejectsKAboveN ==
    (Parsed /\ DecimalK(form) /\ form.k.val > Len(form.args)) => result.kind = "Err"

\* a multi whose k is above its number of keys was parsed, and refused for
\* its threshold
C2_Witness ==
    /\ Parsed /\ DecimalK(form)
    /\ form.name = <<"m", "u", "l", "t", "i">>
    /\ form.k.val = Len(form.args) + 1
    /\ Len(form.args) >= 1
    /\ result = Err(Unexpected(HigherThreshold))

\* the bytes of a text all lie in 20..127
AllPrintable(t) == \A i \in 1..Len(t) : Byte(t[i]) \in 20..127

\* a leaf text the leaf's own decoder refuses: the key parser for pk, pkh and
\* wpkh, hex decoding of a digest for hash, decimal decoding for time
FailsLeafDecoder(Pt, f) ==
    CASE f.name \in {<<"p", "k">>, <<"p", "k", "h">>, <<"w", "p", "k", "h">>} ->
            P_from_str(Pt, f.x).kind # "Ok"
      [] f.name = <<"h", "a", "s", "h">> ->
            ~(Len(f.x) = 2 * Len(ZeroDataHash) /\ \A i \in 1..Len(f.x) : IsHex(f.x[i]))
      [] f.name = <<"t", "i", "m", "e">> ->
            ~(f.x # <<>> /\ (\A i \in 1..Len(f.x) : IsDigit(f.x[i])) /\ ~Overflows(f.x))

\* C3: on a text of bytes 20..127 from_str returns Ok or Err and never
\* panics, and a non-empty leaf that its decoder refuses is reported as the
\* unexpected token, by its text.
C3_ReturnsAValue ==
    (Parsed /\ AllPrintable(s)) =>
        /\ result.kind \in {"Ok", "Err"}
        /\ (form.kind = "leaf" /\ form.x # <<>> /\ FailsLeafDecoder(P, form))
              => result = Err(Unexpected(form.x))

RECURSIVE ThresholdsInRange(_)
\* 1 <= k <= len at every Multi and Threshold node of a tree
ThresholdsInRange(d) ==
    CASE d.tag = "Multi" -> 1 <= d.k /\ d.k <= Len(d.keys)
      [] d.tag = "Threshold" ->
            /\ 1 <= d.k /\ d.k <= Len(d.subs)
            /\ \A i \in 1..Len(d.subs) : ThresholdsInRange(d.subs[i])
      [] d.tag \in {"And", "Or", "AsymmetricOr"} ->
            ThresholdsInRange(d.left) /\ ThresholdsInRange(d.right)
      [] d.tag \in {"Sh", "Wsh"} -> ThresholdsInRange(d.sub)
      [] OTHER -> TRUE

\* C8: every tree from_str returns has 1 <= k <= len at each Multi and
\* Threshold node.
C8_ParsedThresholdsInRange ==
    (Parsed /\ result.kind = "Ok") => ThresholdsInRange(result.val)

RECURSIVE FirstOutside(_)
\* the first byte of a text that is below 20 or above 127, or -1
FirstOutside(t) ==
    IF t = <<>> THEN -1
    ELSE IF Byte(Head(t)) \in 20..127 THEN FirstOutside(Tail(t)) ELSE Byte(Head(t))

IsUnprintableErr(r) == r.kind = "Err" /\ r.err.e = "Unprintable"

\* C10: a text with a byte below 20 or above 127 gets the unprintable error
\* with the first such byte, whatever else it holds; a text without gets
\* another result.
C10_Unprintable ==
    Parsed =>
        IF FirstOutside(s) # -1
        THEN result = Err(Unprintable(FirstOutside(s)))
        ELSE ~IsUnprintableErr(result)

\* a text with two different bytes outside 20..127 was refused for the first
\* of them, and what precedes it is no well-formed expression
C10_Witness ==
    /\ Parsed
    /\ \E i, j \in 1..Len(s) :
          /\ i < j
          /\ Byte(s[i]) \notin 20..127 /\ Byte(s[j]) \notin 20..127
          /\ Byte(s[i]) # Byte(s[j])
          /\ \A h \in 1..(i - 1) : Byte(s[h]) \in 20..127
          /\ i > 1
          /\ result = Err(Unprintable(Byte(s[i])))

\* what FunctionTree::from_slice makes of the whole text
TopLevel == from_slice(s)

\* the number of '(' less the number of ')' among the first i characters
Depth(t, i) ==
    Cardinality({j \in 1..i : t[j] = "("}) - Cardinality({j \in 1..i : t[j] = ")"})

\* a text that is one expression name(...) and nothing more: a name without
\* delimiter, '(', and the ')' that closes it as the last character
OneExpression(t) ==
    \E p \in 1..Len(t) :
        /\ t[p] = "("
        /\ \A j \in 1..(p - 1) : t[j] \notin {"(", ",", ")"}
        /\ \A i \in p..(Len(t) - 1) : Depth(t, i) >= 1
        /\ Depth(t, Len(t)) = 0

\* C11: when the top-level expression FunctionTree::from_slice parses ends
\* before the end of the text, from_str returns an error and never Ok: the
\* unexpected-token error with the leftover text (the unprintable error when
\* the text holds a byte the first loop refuses); every text from_str accepts
\* is one top-level expression and nothing more.
C11_NoTrailingInput ==
    Parsed =>
        /\ (TopLevel.kind = "Ok" /\ TopLevel.rem # <<>>) =>
              /\ result.kind = "Err"
              /\ FirstOutside(s) = -1 => result = Err(Unexpected(TopLevel.rem))
              /\ FirstOutside(s) # -1 => IsUnprintableErr(result)
        /\ result.kind = "Ok" => (TopLevel.kind = "Ok" /\ TopLevel.rem = <<>> /\ OneExpression(s))

\* a text that parses alone was followed by more text, and refused for it
C11_Witness ==
    /\ Parsed
    /\ TopLevel.kind = "Ok" /\ TopLevel.rem # <<>>
    /\ from_str(P, SubSeq(s, 1, Len(s) - Len(TopLevel.rem))).kind = "Ok"
    /\ result = Err(Unexpected(TopLevel.rem))

IsMulti(f) == f.kind = "threshold" /\ f.name = <<"m", "u", "l", "t", "i">>
IsLeaf(f, name) == f.kind = "leaf" /\ f.name = name

\* Multi(2, [P::from_str("").unwrap(); 3]), for a key type that parses ""
DummyMulti(Pt) ==
    LET e == P_from_str(Pt, <<>>).val IN Multi(2, <<e, e, e>>)

\* C12: the dummy values are returned exactly for empty tokens: hash() is
\* Ok(Hash(fixed digest)), time() is Ok(Time(0x10000000)), a multi with an
\* empty threshold token is Ok(Multi(2, three keys parsed from "")); a
\* non-empty hash or time leaf does not get the dummy value, and a multi
\* whose threshold token is non-empty and no decimal integer is refused as
\* an unexpected token.
C12_DummyOnlyForEmpty ==
    Parsed =>
        /\ IsLeaf(form, <<"h", "a", "s", "h">>) =>
              (result = Ok(Hash(ZeroDataHash)) <=> form.x = <<>>)
        /\ IsLeaf(form, <<"t", "i", "m", "e">>) =>
              (result = Ok(Time(268435456)) <=> form.x = <<>>)
        /\ (IsMulti(form) /\ form.k.is = "empty" /\ P_from_str(P, <<>>).kind = "Ok") =>
              result = Ok(DummyMulti(P))
        /\ (IsMulti(form) /\ form.k.is = "other") =>
              result = Err(Unexpected(form.k.tok))

----------------------------------------------------------------------------
(* Descriptor::instantiate *)

\* what instantiate_fn returns: a secp256k1 key, or the caller's error
SecpKeys == {[secp |-> 1], [secp |-> 2]}
InstErrors == {"E1", "E2"}
Outcomes == {Ok(k) : k \in SecpKeys} \cup {Err(e) : e \in InstErrors}

\* a result of instantiate, with the calls of instantiate_fn made so far, in
\* the order they were made
Ret(res, calls) == [res |-> res, calls |-> calls]

\* instantiate_fn(pk).map(variant)
instantiate_pk(tag, pk, f, calls) ==
    LET r == f[pk]
    IN  Ret(IF r.kind = "Ok" THEN Ok([tag |-> tag, pk |-> r.val]) ELSE r, Append(calls, pk))

RECURSIVE instantiate_keys_all(_, _, _, _)
instantiate_keys_all(keys, f, new_keys, calls) ==
    IF keys = <<>> THEN Ret(Ok(new_keys), calls)
    ELSE LET r == f[Head(keys)]
             rest == instantiate_keys_all(Tail(keys), f,
                        IF r.kind = "Ok" THEN Append(new_keys, r.val) ELSE new_keys,
                        Append(calls, Head(keys)))
         IN  IF r.kind = "Ok" THEN rest ELSE Ret(r, rest.calls)

RECURSIVE instantiate_keys_rev(_, _, _, _)
instantiate_keys_rev(keys, f, new_keys, calls) ==
    IF keys = <<>> THEN Ret(Ok(new_keys), calls)
    ELSE LET r == f[Head(keys)]
         IN  IF r.kind = "Ok"
             THEN instantiate_keys_rev(Tail(keys), f, <<r.val>> \o new_keys,
                                       Append(calls, Head(keys)))
             ELSE Ret(r, Append(calls, Head(keys)))

RECURSIVE instantiate_keys(_, _, _, _)
\* for key in keys { new_keys.push(instantiate_fn(key)?) }
instantiate_keys(keys, f, new_keys, calls) ==
    IF keys = <<>> THEN Ret(Ok(new_keys), calls)
    ELSE LET r == f[Head(keys)]
         IN  IF r.kind = "Ok"
             THEN instantiate_keys(Tail(keys), f, Append(new_keys, r.val),
                                   Append(calls, Head(keys)))
             ELSE Ret(r, Append(calls, Head(keys)))

RECURSIVE instantiate(_, _, _), instantiate_subs(_, _, _, _)
\* for sub in subs { new_subs.push(sub.instantiate(instantiate_fn)?) }
instantiate_subs(subs, f, new_subs, calls) ==
    IF subs = <<>> THEN Ret(Ok(new_subs), calls)
    ELSE LET r == instantiate(Head(subs), f, calls)
         IN  IF r.res.kind = "Ok"
             THEN instantiate_subs(Tail(subs), f, Append(new_subs, r.res.val), r.calls)
             ELSE r

instantiate(d, f, calls) ==
    LET \* left.instantiate(f)?, then right.instantiate(f)?
        pair(tag) ==
            LET l == instantiate(d.left, f, calls)
            IN  IF l.res.kind # "Ok" THEN l
                ELSE LET r == instantiate(d.right, f, l.calls)
                     IN  IF r.res.kind # "Ok" THEN r
                         ELSE Ret(Ok([tag |-> tag, left |-> l.res.val, right |-> r.res.val]),
                                  r.calls)
        wrap(tag) ==
            LET r == instantiate(d.sub, f, calls)
            IN  IF r.res.kind # "Ok" THEN r
                ELSE Ret(Ok([tag |-> tag, sub |-> r.res.val]), r.calls)
    IN  CASE d.tag = "Key" -> instantiate_pk("Key", d.pk, f, calls)
          [] d.tag = "KeyHash" -> instantiate_pk("KeyHash", d.pk, f, calls)
          [] d.tag = "Multi" ->
                LET r == instantiate_keys(d.keys, f, <<>>, calls)
                IN  IF r.res.kind = "Ok" THEN Ret(Ok(Multi(d.k, r.res.val)), r.calls) ELSE r
          [] d.tag = "Threshold" ->
                LET r == instantiate_subs(d.subs, f, <<>>, calls)
                IN  IF r.res.kind = "Ok" THEN Ret(Ok(Threshold(d.k, r.res.val)), r.calls)
                    ELSE r
          [] d.tag = "Hash" -> Ret(Ok(Hash(d.hash)), calls)
          [] d.tag = "And" -> pair("And")
          [] d.tag = "Or" -> pair("Or")
          [] d.tag = "AsymmetricOr" -> pair("AsymmetricOr")
          [] d.tag = "Time" -> Ret(Ok(Time(d.n)), calls)
          [] d.tag = "Wpkh" -> instantiate_pk("Wpkh", d.pk, f, calls)
          [] d.tag = "Sh" -> wrap("Sh")
          [] d.tag = "Wsh" -> wrap("Wsh")

----------------------------------------------------------------------------
(* The instantiate scenarios *)

\* the trees handed to instantiate
KeyThresholds(Pt) ==
    UNION {{Threshold(k, ds) : k \in 1..Len(ds)} :
            ds \in SeqsOf({Key(k) : k \in Keys(Pt)} \cup {Time(5)}, 1, MaxN)}
InstTrees(Pt) ==
    Leaves(Pt) \cup Pairs(Pt) \cup Nested(Pt) \cup KeyThresholds(Pt)
    \cup {Sh(d) : d \in Pairs(Pt)} \cup {Wsh(d) : d \in KeyThresholds(Pt)}

InitInstantiate ==
    /\ P \in KeyTypes
    /\ pc = "tree"
    /\ form = [kind |-> "tree"]
    /\ desc \in InstTrees(P)
    /\ inst_fn \in [Keys(P) -> Outcomes]
    /\ inst = None
    /\ s = <<>> /\ result = None
    /\ map = <<>> /\ age = 0 /\ script = None /\ wit = None

\* desc.instantiate(&inst_fn)
Instantiate ==
    /\ pc = "tree"
    /\ inst' = instantiate(desc, inst_fn, <<>>)
    /\ pc' = "instantiated"
    /\ UNCHANGED <<P, form, desc, s, result, inst_fn, map, age, script, wit>>

NextInstantiate == Instantiate

SpecInstantiate == InitInstantiate /\ [][NextInstantiate]_vars

----------------------------------------------------------------------------
(* Claims about instantiate *)

RECURSIVE KeySeq(_)
\* the keys at the leaves of a tree, left to right, depth first
KeySeq(d) ==
    CASE d.tag \in {"Key", "KeyHash", "Wpkh"} -> <<d.pk>>
      [] d.tag = "Multi" -> d.keys
      [] d.tag = "Threshold" -> Concat([i \in 1..Len(d.subs) |-> KeySeq(d.subs[i])])
      [] d.tag \in {"And", "Or", "AsymmetricOr"} -> KeySeq(d.left) \o KeySeq(d.right)
      [] d.tag \in {"Sh", "Wsh"} -> KeySeq(d.sub)
      [] OTHER -> <<>>

RECURSIVE Erase(_)
\* a tree with every key blanked: its variants, thresholds, digests, times,
\* and the number and order of its children and keys
Erase(d) ==
    CASE d.tag \in {"Key", "KeyHash", "Wpkh"} -> [d EXCEPT !.pk = "key"]
      [] d.tag = "Multi" -> [d EXCEPT !.keys = [i \in 1..Len(d.keys) |-> "key"]]
      [] d.tag = "Threshold" ->
            [d EXCEPT !.subs = [i \in 1..Len(d.subs) |-> Erase(d.subs[i])]]
      [] d.tag \in {"And", "Or", "AsymmetricOr"} ->
            [d EXCEPT !.left = Erase(d.left), !.right = Erase(d.right)]
      [] d.tag \in {"Sh", "Wsh"} -> [d EXCEPT !.sub = Erase(d.sub)]
      [] OTHER -> d

\* the positions of the leaves instantiate_fn fails on
FailingAt(d, f) == {i \in 1..Len(KeySeq(d)) : f[KeySeq(d)[i]].kind = "Err"}
FirstFailing(d, f) == CHOOSE i \in FailingAt(d, f) : \A j \in FailingAt(d, f) : i <= j

Instantiated == pc = "instantiated"

\* C5: instantiate_fn is called on the key leaves left to right, depth first;
\* at the first leaf it fails on, instantiate returns that very error, calls
\* it on no later leaf, and returns no tree.
C5_EagerInOrder ==
    Instantiated =>
        IF FailingAt(desc, inst_fn) = {}
        THEN inst.calls = KeySeq(desc)
        ELSE /\ inst.calls = SubSeq(KeySeq(desc), 1, FirstFailing(desc, inst_fn))
             /\ inst.res = Err(inst_fn[KeySeq(desc)[FirstFailing(desc, inst_fn)]].err)

\* instantiate stopped at a failing leaf that has leaves on both sides, a
\* later one failing with another error
C5_Witness ==
    /\ Instantiated
    /\ desc.tag \in {"And", "Or", "AsymmetricOr", "Threshold"}
    /\ FailingAt(desc, inst_fn) # {}
    /\ LET i == FirstFailing(desc, inst_fn)
       IN  /\ 1 < i
           /\ \E j \in FailingAt(desc, inst_fn) :
                 i < j /\ inst_fn[KeySeq(desc)[j]] # inst_fn[KeySeq(desc)[i]]
           /\ inst.res = Err(inst_fn[KeySeq(desc)[i]].err)
           /\ Len(inst.calls) = i

\* C7: when instantiate_fn succeeds on every key, instantiate returns Ok of a
\* tree of the same variants, thresholds, digests, times and numbers of
\* children and keys, each key replaced at its place by what instantiate_fn
\* returned for it; instantiate_fn is called once per key leaf, and the tree
\* instantiate was called on is as before.
C7_PreservesStructure ==
    [][(pc = "tree" /\ pc' = "instantiated" /\ FailingAt(desc, inst_fn) = {}) =>
          /\ desc' = desc
          /\ inst'.res.kind = "Ok"
          /\ Erase(inst'.res.val) = Erase(desc)
          /\ KeySeq(inst'.res.val) = [i \in 1..Len(KeySeq(desc)) |-> inst_fn[KeySeq(desc)[i]].val]
          /\ inst'.calls = KeySeq(desc)]_vars

\* a tree with a Multi of two different keys, mapped to different keys, was
\* instantiated
C7_Witness ==
    /\ Instantiated
    /\ FailingAt(desc, inst_fn) = {}
    /\ inst.res.kind = "Ok"
    /\ \E i, j \in 1..Len(KeySeq(desc)) : inst_fn[KeySeq(desc)[i]] # inst_fn[KeySeq(desc)[j]]
    /\ \/ desc.tag = "Multi" /\ Len(desc.keys) >= 2
       \/ desc.tag \in {"And", "Or", "AsymmetricOr"}

----------------------------------------------------------------------------
(* ParseTree::compile, required_keys and satisfy.  Their code is in another  *)
(* file of the crate; what is here follows the specification's section 4.4  *)
(* and 4.5 and the values tests::compile expects of them.                    *)

\* keys[i] of pubkeys_and_a_sig
TestKey(i) == [secp |-> i]

PushInt(n) == [push_int |-> n]
PushSlice(k) == [push_slice |-> k]
Opcode(o) == [op |-> o]

\* whether the last check of a tree's program has a verify variant: CHECKSIG
\* and CHECKMULTISIG have one, the time-lock check has none
has_verify(d) == d.tag \in {"Key", "Multi"}

\* a program with its last check turned into its verify variant
verify_form(prog) ==
    LET last == prog[Len(prog)]
    IN  SubSeq(prog, 1, Len(prog) - 1)
        \o <<CASE last = Opcode("OP_CHECKSIG") -> Opcode("OP_CHECKSIGVERIFY")
               [] last = Opcode("OP_CHECKMULTISIG") -> Opcode("OP_CHECKMULTISIGVERIFY")
               [] OTHER -> last>>

\* whether And(l, r) is emitted r first
and_swaps_claimed(l, r) == has_verify(l) /\ ~has_verify(r)
and_swaps(l, r) == ~has_verify(l) /\ has_verify(r)

RECURSIVE compile(_)
compile(d) ==
    CASE d.tag = "Key" -> <<PushSlice(d.pk), Opcode("OP_CHECKSIG")>>
      [] d.tag = "Multi" ->
            <<PushInt(d.k)>> \o [i \in 1..Len(d.keys) |-> PushSlice(d.keys[i])]
            \o <<PushInt(Len(d.keys)), Opcode("OP_CHECKMULTISIG")>>
      [] d.tag = "Time" -> <<PushInt(d.n), Opcode("OP_CSV")>>
      [] d.tag = "And" ->
            LET first == IF and_swaps(d.left, d.right) THEN d.right ELSE d.left
                last == IF and_swaps(d.left, d.right) THEN d.left ELSE d.right
            IN  IF has_verify(first)
                THEN verify_form(compile(first)) \o compile(last)
                ELSE compile(first) \o <<Opcode("OP_DROP")>> \o compile(last)
      [] d.tag \in {"Or", "AsymmetricOr"} ->
            compile(d.left) \o <<Opcode("OP_IFDUP"), Opcode("OP_NOTIF")>>
            \o compile(d.right) \o <<Opcode("OP_ENDIF")>>

RECURSIVE required_keys(_)
\* the keys of a tree, in traversal order
required_keys(d) ==
    CASE d.tag = "Key" -> <<d.pk>>
      [] d.tag = "Multi" -> d.keys
      [] d.tag = "Time" -> <<>>
      [] d.tag \in {"And", "Or", "AsymmetricOr"} ->
            required_keys(d.left) \o required_keys(d.right)

\* SigHashType::All as the byte appended to a signature
SigHashAll == 1

\* sig.serialize_der(): a signature, DER-encoded (the model's encoding is
\* four bytes long, the last one telling signatures apart)
serialize_der(sig) == <<48, 2, 1, sig.id>>

\* the witness element of a map entry (sig, sighash type): the DER bytes,
\* then the sighash byte
sigvec(entry) == serialize_der(entry.sig) \o <<entry.hashty>>

\* n empty witness elements
Empties(n) == [i \in 1..n |-> <<>>]

RECURSIVE first_signed(_, _, _)
\* the witness elements of the first k keys of a list that have a signature
first_signed(keys, m, k) ==
    IF k = 0 \/ keys = <<>> THEN <<>>
    ELSE IF Head(keys) \in DOMAIN m
         THEN <<sigvec(m[Head(keys)])>> \o first_signed(Tail(keys), m, k - 1)
         ELSE first_signed(Tail(keys), m, k)

\* the size of a witness on the wire: a length byte and the bytes of each
\* element
RECURSIVE satisfy_cost(_)
satisfy_cost(w) == IF w = <<>> THEN 0 ELSE 1 + Len(Head(w)) + satisfy_cost(Tail(w))

\* the filler of a branch that is not taken: k+1 empty elements for a Multi;
\* a branch that holds a time lock cannot be dissatisfied and gets none
dissatisfy(d) ==
    CASE d.tag = "Multi" -> Empties(d.k + 1)
      [] d.tag \in {"Time", "And"} -> <<>>

RECURSIVE satisfy(_, _, _)
satisfy(d, m, a) ==
    CASE d.tag = "Key" ->
            IF d.pk \in DOMAIN m THEN Ok(<<sigvec(m[d.pk])>>) ELSE Err("no signature")
      [] d.tag = "Multi" ->
            IF Cardinality({i \in 1..Len(d.keys) : d.keys[i] \in DOMAIN m}) >= d.k
            THEN Ok(first_signed(d.keys, m, d.k) \o <<<<>>>>)
            ELSE Err("no signature")
      [] d.tag = "Time" -> IF a >= d.n THEN Ok(<<>>) ELSE Err("locktime not met")
      [] d.tag = "And" ->
            LET l == satisfy(d.left, m, a)
                r == satisfy(d.right, m, a)
            IN  IF l.kind # "Ok" THEN l
                ELSE IF r.kind # "Ok" THEN r
                     ELSE Ok(r.val \o l.val)
      [] d.tag \in {"Or", "AsymmetricOr"} ->
            LET l == satisfy(d.left, m, a)
                r == satisfy(d.right, m, a)
                by_l == l.val \o dissatisfy(d.right)
                by_r == r.val \o dissatisfy(d.left)
            IN  CASE l.kind = "Ok" /\ r.kind = "Ok" ->
                        IF satisfy_cost(by_l) <= satisfy_cost(by_r) THEN Ok(by_l) ELSE Ok(by_r)
                  [] l.kind = "Ok" /\ r.kind # "Ok" -> Ok(by_l)
                  [] l.kind # "Ok" /\ r.kind = "Ok" -> Ok(by_r)
                  [] OTHER -> Err("no branch satisfiable")

----------------------------------------------------------------------------
(* tests::compile, and the compile / satisfy scenarios *)

TestKeys(from, to) == [i \in 1..(to - from) |-> TestKey(from + i - 1)]

\* the descriptors of tests::compile
TestTime == Time(100)
TestPk == Key(TestKey(0))
TestAnd == And(Time(10000), Multi(2, TestKeys(5, 8)))
LiquidPolicy == AsymmetricOr(Multi(3, TestKeys(0, 5)), TestAnd)

\* the scripts tests::compile expects
test_time_script == <<PushInt(100), Opcode("OP_CSV")>>
test_pk_script == <<PushSlice(TestKey(0)), Opcode("OP_CHECKSIG")>>
test_and_script_time_first ==
    <<PushInt(10000), Opcode("OP_CSV"), Opcode("OP_DROP"),
      PushInt(2), PushSlice(TestKey(5)), PushSlice(TestKey(6)), PushSlice(TestKey(7)),
      PushInt(3), Opcode("OP_CHECKMULTISIG")>>
test_and_script ==
    <<PushInt(2), PushSlice(TestKey(5)), PushSlice(TestKey(6)), PushSlice(TestKey(7)),
      PushInt(3), Opcode("OP_CHECKMULTISIGVERIFY"),
      PushInt(10000), Opcode("OP_CSV")>>
test_liquid_script ==
    <<PushInt(3), PushSlice(TestKey(0)), PushSlice(TestKey(1)), PushSlice(TestKey(2)),
      PushSlice(TestKey(3)), PushSlice(TestKey(4)), PushInt(5),
      Opcode("OP_CHECKMULTISIG"), Opcode("OP_IFDUP"), Opcode("OP_NOTIF"),
      PushInt(2), PushSlice(TestKey(5)), PushSlice(TestKey(6)), PushSlice(TestKey(7)),
      PushInt(3), Opcode("OP_CHECKMULTISIGVERIFY"),
      PushInt(10000), Opcode("OP_CSV"),
      Opcode("OP_ENDIF")>>

\* the one signature pubkeys_and_a_sig returns, and another one
TestSig == [id |-> 1]
Sigs == {TestSig, [id |-> 2]}

\* (sig, SigHashType::All), the value the test inserts for every key
Entry(sig) == [sig |-> sig, hashty |-> SigHashAll]

\* let mut sigvec = sig.serialize_der(&secp); sigvec.push(1)
test_sigvec == sigvec(Entry(TestSig))

\* the witness tests::compile expects once keys 0, 1, 2, 5 and 6 have signed
\* and the time is 10000
test_right_witness_left_first ==
    <<test_sigvec, test_sigvec, test_sigvec, <<>>>>
test_right_witness_n_plus_1 ==
    <<test_sigvec, test_sigvec, <<>>, <<>>, <<>>, <<>>, <<>>, <<>>, <<>>>>
test_right_witness ==
    <<test_sigvec, test_sigvec, <<>>,   \* sat for right branch
      <<>>, <<>>, <<>>, <<>>>>                \* dissat for left branch
\* ... and while only keys 0, 1, 2 (and 5) have, at time 0
test_left_witness == <<test_sigvec, test_sigvec, test_sigvec, <<>>>>

\* the satisfy calls of tests::compile on the Liquid policy: the keys that
\* have signed, the time, and what the test expects
TestSatisfy ==
    {[signed |-> {}, age |-> 0, expect |-> "is_err"],
     [signed |-> {0, 1}, age |-> 0, expect |-> "is_err"],
     [signed |-> {0, 1, 2}, age |-> 0, expect |-> test_left_witness],
     [signed |-> {0, 1, 2, 5}, age |-> 0, expect |-> test_left_witness],
     [signed |-> {0, 1, 2, 5, 6}, age |-> 10000, expect |-> test_right_witness]}

\* the trees compiled and satisfied
SatLeaves == {TestTime, TestPk, Time(10000)}
SatMultis ==
    UNION {{Multi(k, [i \in 1..n |-> TestKey((i + r) % n)]) : k \in 1..n, r \in 0..1} :
            n \in 1..(MaxN + 1)}
SatOperands == {TestTime, Time(10000), TestPk, Multi(2, TestKeys(5, 8)), Multi(1, TestKeys(0, 1))}
SatAnds == {And(l, r) : l, r \in SatOperands}
SatOrs ==
    UNION {{Or(Multi(k, TestKeys(0, 5)), r), AsymmetricOr(Multi(k, TestKeys(0, 5)), r)} :
            k \in 2..MaxK,
            r \in {TestAnd, And(Multi(2, TestKeys(5, 8)), Time(10000))}}
SatTrees == SatLeaves \cup SatMultis \cup SatAnds \cup SatOrs

Ages == {0, 100, 10000}

\* the signatures inserted for a policy: the test's one for the eight-key
\* policies, as in tests::compile, either one for the others
SigsFor(d) == IF d \in SatOrs THEN {TestSig} ELSE Sigs

InitSatisfy ==
    /\ P = "PublicKey"
    /\ pc = "tree"
    /\ form = [kind |-> "tree"]
    /\ desc \in SatTrees
    /\ map = <<>> /\ age = 0 /\ script = None /\ wit = None
    /\ s = <<>> /\ result = None /\ inst_fn = None /\ inst = None

\* let pt = ParseTree::compile(&desc)
Compile ==
    /\ pc = "tree"
    /\ script' = compile(desc)
    /\ pc' = "compiled"
    /\ UNCHANGED <<P, form, desc, s, result, inst_fn, inst, map, age, wit>>

\* map.insert(key, (sig, SigHashType::All)) for a key of the policy
InsertSig ==
    /\ pc \in {"compiled", "satisfied"}
    /\ \E i \in 1..Len(required_keys(desc)), sig \in SigsFor(desc) :
        LET k == required_keys(desc)[i] IN
        /\ k \notin DOMAIN map
        /\ map' = [x \in DOMAIN map \cup {k} |-> IF x = k THEN Entry(sig) ELSE map[x]]
    /\ pc' = "compiled"
    /\ wit' = None
    /\ UNCHANGED <<P, form, desc, s, result, inst_fn, inst, age, script>>

\* pt.satisfy(&map, .., a)
Satisfy(a) ==
    /\ pc \in {"compiled", "satisfied"}
    /\ age' = a
    /\ wit' = satisfy(desc, map, a)
    /\ pc' = "satisfied"
    /\ UNCHANGED <<P, form, desc, s, result, inst_fn, inst, map, script>>

NextSatisfy ==
    \/ Compile
    \/ InsertSig
    \/ \E a \in Ages : Satisfy(a)

SpecSatisfy == InitSatisfy /\ [][NextSatisfy]_vars

----------------------------------------------------------------------------
(* Properties of compile and satisfy *)

Compiled == pc \in {"compiled", "satisfied"}
Satisfied == pc = "satisfied"

\* the map of the test: the keys ids, each with the test's signature
Signed(ids) == map = [k \in {TestKey(i) : i \in ids} |-> Entry(TestSig)]

\* every satisfy call of tests::compile returns what the test expects
SatisfyAsTested ==
    \A c \in TestSatisfy :
        (Satisfied /\ desc = LiquidPolicy /\ Signed(c.signed) /\ age = c.age) =>
            IF c.expect = "is_err" THEN wit.kind = "Err" ELSE wit = Ok(c.expect)

\* every compile call of tests::compile returns what the test expects
CompileAsTested ==
    Compiled =>
        /\ desc = TestTime => script = test_time_script
        /\ desc = TestPk => script = test_pk_script
        /\ desc = TestAnd => script = test_and_script
        /\ desc = LiquidPolicy => script = test_liquid_script
        /\ desc = LiquidPolicy => required_keys(desc) = TestKeys(0, 8)

IsOr == desc.tag \in {"Or", "AsymmetricOr"}
SatL == satisfy(desc.left, map, age)
SatR == satisfy(desc.right, map, age)
ByLeft == SatL.val \o dissatisfy(desc.right)
ByRight == SatR.val \o dissatisfy(desc.left)

\* C4 as stated: an Or or AsymmetricOr whose left branch is satisfiable is
\* satisfied by the left branch's witness (followed by the right branch's
\* filler), whether or not the right branch is satisfiable too; the right
\* branch's witness is used only when the left has none.
C4_LeftFirst ==
    (Satisfied /\ IsOr) =>
        /\ SatL.kind = "Ok" => wit = Ok(ByLeft)
        /\ (SatL.kind = "Err" /\ SatR.kind = "Ok") => wit = Ok(ByRight)
        /\ (SatL.kind = "Err" /\ SatR.kind = "Err") => wit.kind = "Err"

\* C4, amended: when only one branch of an Or or AsymmetricOr is
\* satisfiable the witness is that branch's witness followed by the other
\* branch's filler; when both are, it is one of those two candidates (for
\* the Liquid policy with keys 0, 1, 2, 5, 6 signed at time 10000 it is the
\* right branch's, as tests::compile expects); when neither is, satisfy
\* returns an error.
C4_EitherBranch ==
    /\ (Satisfied /\ IsOr) =>
        /\ (SatL.kind = "Ok" /\ SatR.kind = "Err") => wit = Ok(ByLeft)
        /\ (SatL.kind = "Err" /\ SatR.kind = "Ok") => wit = Ok(ByRight)
        /\ (SatL.kind = "Ok" /\ SatR.kind = "Ok") => wit \in {Ok(ByLeft), Ok(ByRight)}
        /\ (SatL.kind = "Err" /\ SatR.kind = "Err") => wit.kind = "Err"
    /\ SatisfyAsTested

\* both branches of the Liquid policy are satisfiable and the right one is
\* taken
C4_Witness ==
    /\ Satisfied /\ desc = LiquidPolicy /\ Signed({0, 1, 2, 5, 6}) /\ age = 10000
    /\ SatL.kind = "Ok" /\ SatR.kind = "Ok"
    /\ wit = Ok(ByRight) /\ wit # Ok(ByLeft)

\* the positions of the listed keys that have a signature
SignedAt(d) == {i \in 1..Len(d.keys) : d.keys[i] \in DOMAIN map}

IsEmpties(w, from, to) == \A i \in from..to : w[i] = <<>>

\* w[1..k] are the signatures of k signed keys of d, in listing order
InListingOrder(w, d) ==
    \E sel \in [1..d.k -> SignedAt(d)] :
        /\ \A i \in 1..(d.k - 1) : sel[i] < sel[i + 1]
        /\ \A i \in 1..d.k :
            w[i] = serialize_der(map[d.keys[sel[i]]].sig) \o <<SigHashAll>>

\* C6: satisfying Multi(k, keys) succeeds exactly when at least k of the
\* listed keys have a signature in the map; the witness is then k
\* signatures with their sighash byte, in listing order, followed by one
\* empty element.  The filler for a Multi left branch that is not taken is
\* k + 1 empty elements.
C6_MultiSatisfaction ==
    /\ (Satisfied /\ desc.tag = "Multi") =>
        /\ wit.kind = "Ok" <=> Cardinality(SignedAt(desc)) >= desc.k
        /\ wit.kind = "Ok" =>
            /\ Len(wit.val) = desc.k + 1
            /\ wit.val[desc.k + 1] = <<>>
            /\ InListingOrder(wit.val, desc)
    /\ (Satisfied /\ IsOr /\ desc.left.tag = "Multi" /\ wit.kind = "Ok"
            /\ Cardinality(SignedAt(desc.left)) < desc.left.k) =>
        /\ Len(wit.val) = Len(SatR.val) + desc.left.k + 1
        /\ IsEmpties(wit.val, Len(SatR.val) + 1, Len(wit.val))
    /\ SatisfyAsTested

\* a Multi satisfied without the signature of its first listed key, the
\* signatures used differing
C6_Witness ==
    /\ Satisfied /\ desc.tag = "Multi" /\ wit.kind = "Ok"
    /\ 1 \notin SignedAt(desc)
    /\ desc.k >= 2 /\ wit.val[1] # wit.val[2]

CheckOps == {Opcode("OP_CHECKSIG"), Opcode("OP_CHECKMULTISIG")}
VerifyOps == {Opcode("OP_CHECKSIGVERIFY"), Opcode("OP_CHECKMULTISIGVERIFY")}

\* an And of a time lock and a signature check, in either order
TimeAndCheck ==
    /\ desc.tag = "And"
    /\ \/ desc.left.tag = "Time" /\ desc.right.tag \in {"Key", "Multi"}
       \/ desc.right.tag = "Time" /\ desc.left.tag \in {"Key", "Multi"}

TimeOperand == IF desc.left.tag = "Time" THEN desc.left ELSE desc.right
CheckOperand == IF desc.left.tag = "Time" THEN desc.right ELSE desc.left

Last(q) == q[Len(q)]

\* C9 as stated: the operand that ends in a signature check is placed last
\* in the script of an And.
C9_CheckPlacedLast ==
    (Compiled /\ TimeAndCheck) =>
        /\ Last(script) \in CheckOps \cup VerifyOps
        /\ script[1] = PushInt(TimeOperand.n)

\* C9, amended: in the script of an And of a time lock and a signature
\* check, the operand ending in the check is placed first, its final opcode
\* in the VERIFY form, and the time lock's program is placed last, whichever
\* side each operand is on; the scripts of tests::compile are as expected.
C9_CheckPlacedFirst ==
    /\ (Compiled /\ TimeAndCheck) =>
        /\ Len(script) >= 4
        /\ Last(script) = Opcode("OP_CSV")
        /\ script[Len(script) - 1] = PushInt(TimeOperand.n)
        /\ script[Len(script) - 2] \in VerifyOps
        /\ script[1] = Head(compile(CheckOperand))
        /\ \A i \in 1..Len(script) : script[i] \notin CheckOps
    /\ CompileAsTested

\* the And of tests::compile, compiled: the time lock is on the left and its
\* program is last
C9_Witness ==
    /\ Compiled /\ desc = TestAnd
    /\ script = test_and_script
    /\ Last(script) = Opcode("OP_CSV")

====
